---- MODULE Spec2Model ----
(***************************************************************************)
(* A model of sgp, the tool that links generated protobuf stubs of a Bazel *)
(* workspace to the places language tooling expects them.                  *)
(*                                                                         *)
(* Strings are sequences of tokens.  A token is an indivisible run of one  *)
(* or more characters; "/", ".", ":" and "_" are always tokens of their    *)
(* own, and no token is the concatenation of other tokens, so two token    *)
(* sequences are equal exactly when the strings they spell are equal.      *)
(* The path segment ".." is not part of the alphabet.                      *)
(***************************************************************************)
EXTENDS Naturals, Sequences, FiniteSets, TLC

VARIABLES fs, fs0, inv, out, arg, ret

vars == <<fs, fs0, inv, out, arg, ret>>

----------------------------------------------------------------------------
(* Strings (package strings)                                               *)

Empty == <<>>

\* The tokens that spell a single character.
OneChar == {"/", ".", ":", "_", "x"}

HasPrefix(s, p) ==
    /\ Len(p) <= Len(s)
    /\ SubSeq(s, 1, Len(p)) = p

HasSuffix(s, p) ==
    /\ Len(p) <= Len(s)
    /\ SubSeq(s, Len(s) - Len(p) + 1, Len(s)) = p

TrimPrefix(s, p) ==
    IF HasPrefix(s, p) THEN SubSeq(s, Len(p) + 1, Len(s)) ELSE s

TrimSuffix(s, p) ==
    IF HasSuffix(s, p) THEN SubSeq(s, 1, Len(s) - Len(p)) ELSE s

\* s[1:] of a string whose first character is a token of its own.
DropFirstChar(s) == Tail(s)

----------------------------------------------------------------------------
(* Paths (package path/filepath)                                           *)

Slash == <<"/">>

Dot == <<".">>

RECURSIVE SplitSegs(_, _)
\* The segments of s between its "/" tokens, cur being the segment under way.
SplitSegs(s, cur) ==
    IF s = Empty THEN <<cur>>
    ELSE IF Head(s) = "/" THEN <<cur>> \o SplitSegs(Tail(s), Empty)
    ELSE SplitSegs(Tail(s), Append(cur, Head(s)))

RECURSIVE JoinSegs(_)
JoinSegs(segs) ==
    IF segs = <<>> THEN Empty
    ELSE IF Len(segs) = 1 THEN segs[1]
    ELSE segs[1] \o Slash \o JoinSegs(Tail(segs))

IsRooted(s) == s # Empty /\ Head(s) = "/"

RealSeg(seg) == seg # Empty /\ seg # Dot

\* filepath.Clean: empty and "." segments go, a trailing slash goes, the
\* empty path becomes ".".
Clean(s) ==
    LET kept == SelectSeq(SplitSegs(s, Empty), RealSeg)
        body == JoinSegs(kept)
    IN  IF IsRooted(s) THEN Slash \o body
        ELSE IF body = Empty THEN Dot
        ELSE body

RECURSIVE JoinRaw(_)
\* The non-empty elements joined by "/".
JoinRaw(elems) ==
    IF elems = <<>> THEN Empty
    ELSE IF elems[1] = Empty THEN JoinRaw(Tail(elems))
    ELSE LET rest == JoinRaw(Tail(elems))
         IN  IF rest = Empty THEN elems[1] ELSE elems[1] \o Slash \o rest

\* filepath.Join
Join(elems) ==
    LET raw == JoinRaw(elems)
    IN  IF raw = Empty THEN Empty ELSE Clean(raw)

\* filepath.Base
Base(s) ==
    LET kept == SelectSeq(SplitSegs(s, Empty), LAMBDA g : g # Empty)
    IN  IF s = Empty THEN Dot
        ELSE IF kept = <<>> THEN Slash
        ELSE kept[Len(kept)]

RECURSIVE LastSlash(_)
\* The index of the last "/" token of s, 0 when it has none.
LastSlash(s) ==
    IF s = Empty THEN 0
    ELSE IF s[Len(s)] = "/" THEN Len(s)
    ELSE LastSlash(SubSeq(s, 1, Len(s) - 1))

\* filepath.Dir
Dir(s) == Clean(SubSeq(s, 1, LastSlash(s)))

----------------------------------------------------------------------------
(* The descriptor model: what build.ParseBuild hands to parseBuildFile     *)

goProtoLibrary == "go_proto_library"

tsProtoLibrary == "ts_proto_library"

protoLibrary == "proto_library"

\* A rule of a BUILD file.  AttrString gives "" for an attribute that is not
\* set, AttrStrings gives nil for one that is not set (hasSrcs = FALSE) and
\* a non-nil slice for a list, the empty list included.
Rule(kind, name, hasSrcs, srcs, proto, importpath) ==
    [kind |-> kind, name |-> name, hasSrcs |-> hasSrcs, srcs |-> srcs,
     proto |-> proto, importpath |-> importpath]

\* buildFile.Rules(kind): the rules of that kind, in file order; all the
\* rules for kind "".
Rules(rules, kind) ==
    IF kind = "" THEN rules ELSE SelectSeq(rules, LAMBDA r : r.kind = kind)

\* A Go map read: the zero value for a key that is not there.
MapGet(m, k, zero) == IF k \in DOMAIN m THEN m[k] ELSE zero

MapPut(m, k, v) == [x \in DOMAIN m \cup {k} |-> IF x = k THEN v ELSE m[x]]

EmptyMap == [x \in {} |-> Empty]

ParseErr(e) ==
    [err |-> e, protoFileToRule |-> EmptyMap, protoRuleToLangProtoRules |-> EmptyMap]

RECURSIVE SrcLoop(_, _, _)
\* for _, src := range srcs
SrcLoop(srcs, name, m) ==
    IF srcs = <<>> THEN [err |-> "", map |-> m]
    ELSE IF MapGet(m, Head(srcs), Empty) # Empty
         THEN [err |-> "DuplicateSourceOwnership", map |-> m]
    ELSE SrcLoop(Tail(srcs), name, MapPut(m, Head(srcs), name))

RECURSIVE ProtoRulesLoop(_, _)
\* for _, r := range protoRules
ProtoRulesLoop(rules, m) ==
    IF rules = <<>> THEN [err |-> "", map |-> m]
    ELSE LET r == Head(rules)
         IN  IF ~r.hasSrcs THEN [err |-> "MissingSources", map |-> m]
             ELSE LET got == SrcLoop(r.srcs, r.name, m)
                  IN  IF got.err # "" THEN got
                      ELSE ProtoRulesLoop(Tail(rules), got.map)

languageProtoRule(kind, name, protoRuleName, importPath) ==
    [kind |-> kind, name |-> name, protoRuleName |-> protoRuleName,
     importPath |-> importPath]

\* What the older, Go-only parseBuildFile did: the rule replaces the entry.
AddLangRuleReplace(m, protoRuleName, langProtoRule) ==
    MapPut(m, protoRuleName, <<langProtoRule>>)

\* protoRuleToLangProtoRules[protoRuleName] = append(..., langProtoRule)
AddLangRule(m, protoRuleName, langProtoRule) ==
    MapPut(m, protoRuleName, Append(MapGet(m, protoRuleName, <<>>), langProtoRule))

RECURSIVE LangRulesLoop(_, _)
\* for _, r := range goProtoRules
LangRulesLoop(rules, m) ==
    IF rules = <<>> THEN [err |-> "", map |-> m]
    ELSE LET r == Head(rules)
             importPath == IF r.kind = goProtoLibrary THEN r.importpath ELSE Empty
         IN  IF r.kind # goProtoLibrary /\ r.kind # tsProtoLibrary
             THEN LangRulesLoop(Tail(rules), m)
             ELSE IF r.proto = Empty
             THEN [err |-> "MissingConsumedReference", map |-> m]
             ELSE IF ~HasPrefix(r.proto, <<":">>)
             THEN [err |-> "UnsupportedReferenceForm", map |-> m]
             ELSE IF r.kind = goProtoLibrary /\ importPath = Empty
             THEN [err |-> "MissingImportPath", map |-> m]
             ELSE LangRulesLoop(Tail(rules),
                      AddLangRule(m, DropFirstChar(r.proto),
                          languageProtoRule(r.kind, r.name,
                              DropFirstChar(r.proto), importPath)))

\* parseBuildFile, from the rules the descriptor parser returned.
IndexRules(rules) ==
    LET srcIdx == ProtoRulesLoop(Rules(rules, protoLibrary), EmptyMap)
        genIdx == LangRulesLoop(Rules(rules, ""), EmptyMap)
    IN  IF srcIdx.err # "" THEN ParseErr(srcIdx.err)
        ELSE IF genIdx.err # "" THEN ParseErr(genIdx.err)
        ELSE [err |-> "", protoFileToRule |-> srcIdx.map,
              protoRuleToLangProtoRules |-> genIdx.map]

\* The file system: a map from cleaned absolute paths to entries.
FileEntry == [type |-> "file", target |-> Empty, parses |-> FALSE, rules |-> <<>>]

DirEntry == [type |-> "dir", target |-> Empty, parses |-> FALSE, rules |-> <<>>]

LinkEntry(target) ==
    [type |-> "symlink", target |-> target, parses |-> FALSE, rules |-> <<>>]

BuildEntry(rules) ==
    [type |-> "file", target |-> Empty, parses |-> TRUE, rules |-> rules]

Exists(fsys, path) == Clean(path) \in DOMAIN fsys

\* parseBuildFile: ioutil.ReadFile, build.ParseBuild, then the two indices.
parseBuildFile(fsys, buildFilePath) ==
    LET p == Clean(buildFilePath)
    IN  IF ~Exists(fsys, p) \/ fsys[p].type # "file" THEN ParseErr("ReadBuildFile")
        ELSE IF ~fsys[p].parses THEN ParseErr("DescriptorParseFailure")
        ELSE IndexRules(fsys[p].rules)

\* A plausible slip: a declared source without a consumer gives an empty list.
getLangProtoRulesForProtoEmptyOk(b, protoFile) ==
    LET basename == Base(protoFile)
    IN  IF basename \notin DOMAIN b.protoFileToRule
        THEN [ok |-> FALSE, rules |-> <<>>]
        ELSE [ok |-> TRUE,
              rules |-> MapGet(b.protoRuleToLangProtoRules,
                               b.protoFileToRule[basename], <<>>)]

getLangProtoRulesForProto(b, protoFile) ==
    LET basename == Base(protoFile)
    IN  IF basename \notin DOMAIN b.protoFileToRule
        THEN [ok |-> FALSE, rules |-> <<>>]
        ELSE IF b.protoFileToRule[basename] \notin DOMAIN b.protoRuleToLangProtoRules
        THEN [ok |-> FALSE, rules |-> <<>>]
        ELSE [ok |-> TRUE,
              rules |-> b.protoRuleToLangProtoRules[b.protoFileToRule[basename]]]

----------------------------------------------------------------------------
(* githubRepoRe = ^github.com/(.+?)/(.+?)/                                 *)

\* The positions b of s at which a match of githubRepoRe can end: "github",
\* any one character, "com", "/", one or more characters, "/", one or more
\* characters, "/".
GithubMatchEnds(s) ==
    IF ~(Len(s) >= 4 /\ s[1] = "github" /\ s[2] \in OneChar
           /\ s[3] = "com" /\ s[4] = "/")
    THEN {}
    ELSE {b \in 8..Len(s) :
            /\ s[b] = "/"
            /\ \E a \in 6..(b - 2) : s[a] = "/"}

\* The length of the match of githubRepoRe at the start of s, 0 for none.
\* Both groups are lazy, so the match is the shortest one.
GithubMatchLen(s) ==
    IF GithubMatchEnds(s) = {} THEN 0
    ELSE CHOOSE b \in GithubMatchEnds(s) : \A c \in GithubMatchEnds(s) : b <= c

\* githubRepoRe.ReplaceAllLiteralString(s, "")
StripGithubRepo(s) == SubSeq(s, GithubMatchLen(s) + 1, Len(s))

----------------------------------------------------------------------------
(* The file system calls                                                   *)

FsPut(fsys, path, entry) ==
    [p \in DOMAIN fsys \cup {path} |-> IF p = path THEN entry ELSE fsys[p]]

\* The cleaned path and its ancestors, the root directory left out.
Ancestors(path) ==
    LET segs == SelectSeq(SplitSegs(path, Empty), RealSeg)
        lead == IF IsRooted(path) THEN Slash ELSE Empty
    IN  {lead \o JoinSegs(SubSeq(segs, 1, k)) : k \in 1..Len(segs)}

IsDirAt(fsys, p) == p = Slash \/ (p \in DOMAIN fsys /\ fsys[p].type = "dir")

\* os.MkdirAll: fails on an ancestor that is there and is no directory
\* (the links of this model never point to a directory), creates nothing
\* in that case, and creates every missing ancestor otherwise.
MkdirAll(fsys, path) ==
    LET anc == Ancestors(path)
    IN  IF \E a \in anc : a \in DOMAIN fsys /\ fsys[a].type # "dir"
        THEN [err |-> "MkdirFailed", fs |-> fsys]
        ELSE [err |-> "",
              fs |-> [p \in DOMAIN fsys \cup anc |->
                        IF p \in DOMAIN fsys THEN fsys[p] ELSE DirEntry]]

\* os.Lstat: what is at the path itself, a link not followed.
Lstat(fsys, path) ==
    IF Exists(fsys, path) THEN fsys[Clean(path)].type ELSE "none"

\* os.Symlink(target, link): fails when the link path is taken or its
\* directory is missing.
Symlink(fsys, target, link) ==
    IF Exists(fsys, link) \/ ~IsDirAt(fsys, Dir(Clean(link)))
    THEN [err |-> "SymlinkFailed", fs |-> fsys]
    ELSE [err |-> "", fs |-> FsPut(fsys, Clean(link), LinkEntry(target))]

----------------------------------------------------------------------------
(* languageProtoRule.getLinkAndTarget                                      *)

ResolveErr(e, fsys) == [err |-> e, link |-> Empty, target |-> Empty, fs |-> fsys]

getLinkAndTarget(fsys, r, workspaceRoot, protoFile) ==
    LET protoFileRelPath == TrimPrefix(protoFile, workspaceRoot)
        workspaceRelativePath == StripGithubRepo(r.importPath)
        protoFileBasename == Base(protoFile)
        linkSrcDir == Join(<<workspaceRoot, workspaceRelativePath>>)
        made == MkdirAll(fsys, linkSrcDir)
        linkSrcFile == TrimSuffix(protoFileBasename, <<".proto">>) \o <<".pb.go">>
    IN  CASE r.kind = goProtoLibrary ->
               IF workspaceRelativePath = r.importPath
               THEN ResolveErr("UnresolvableImportPath", fsys)
               ELSE IF made.err # "" THEN ResolveErr(made.err, fsys)
               ELSE [err |-> "",
                     link |-> Join(<<linkSrcDir, linkSrcFile>>),
                     target |-> Join(<<workspaceRoot, <<"bazel-bin">>,
                                       Dir(protoFileRelPath), r.name \o <<"_">>,
                                       r.importPath, linkSrcFile>>),
                     fs |-> made.fs]
          [] r.kind = tsProtoLibrary ->
               [err |-> "",
                link |-> Join(<<workspaceRoot, Dir(protoFileRelPath),
                                r.name \o <<".d.ts">>>>),
                target |-> Join(<<workspaceRoot, <<"bazel-bin">>,
                                  Dir(protoFileRelPath), r.name \o <<".d.ts">>>>),
                fs |-> fsys]
          [] OTHER -> ResolveErr("UnsupportedGenerationKind", fsys)

----------------------------------------------------------------------------
(* filepath.Walk, as processWorkspace uses it                              *)

\* The tokens in byte order, to order the names of a directory.
TokenOrder ==
    <<".", ".d.ts", ".pb.go", ".proto", "/", ":", "BUILD", "WORKSPACE", "_",
      "acme", "b", "bazel-bin", "c", "com", "elsewhere", "example", "github",
      "lib", "m", "mgo", "mgo2", "mts", "n", "pkg", "proj", "sub", "w2", "ws",
      "x">>

Rank(t) == CHOOSE i \in 1..Len(TokenOrder) : TokenOrder[i] = t

RECURSIVE NameLess(_, _)
\* Name a before name b, token by token.
NameLess(a, b) ==
    IF a = <<>> THEN b # <<>>
    ELSE IF b = <<>> THEN FALSE
    ELSE IF Head(a) = Head(b) THEN NameLess(Tail(a), Tail(b))
    ELSE Rank(Head(a)) < Rank(Head(b))

RECURSIVE SegsLess(_, _)
SegsLess(a, b) ==
    IF a = <<>> THEN b # <<>>
    ELSE IF b = <<>> THEN FALSE
    ELSE IF Head(a) = Head(b) THEN SegsLess(Tail(a), Tail(b))
    ELSE NameLess(Head(a), Head(b))

\* The order in which Walk visits: a directory before what it holds, the
\* names of one directory in lexical order.
PathLess(p, q) == SegsLess(SplitSegs(p, Empty), SplitSegs(q, Empty))

RECURSIVE SortPaths(_)
SortPaths(S) ==
    IF S = {} THEN <<>>
    ELSE LET first == CHOOSE p \in S : \A q \in S \ {p} : PathLess(p, q)
         IN  <<first>> \o SortPaths(S \ {first})

\* The paths under root that end in ".proto", files and directories alike,
\* in the order Walk reports them.
Walk(fsys, root) ==
    LET top == Clean(root)
        under == {p \in DOMAIN fsys :
                    HasPrefix(p, top \o Slash) /\ HasSuffix(p, <<".proto">>)}
    IN  (IF HasSuffix(root, <<".proto">>) THEN <<root>> ELSE <<>>)
        \o SortPaths(under)

----------------------------------------------------------------------------
(* processProtoFile: the reconciliation of one link                        *)

Outcome(e, fsys, c, u) == [err |-> e, fs |-> fsys, created |-> c, upToDate |-> u]

\* A plausible slip: a link that is already right is made again and counted
\* as created.
ReconcileRecount(fsys, lst, link, linkTarget) ==
    IF lst = "symlink" /\ Lstat(fsys, link) = "symlink"
       /\ fsys[Clean(link)].target = linkTarget
    THEN Outcome("", FsPut(fsys, Clean(link), LinkEntry(linkTarget)), 1, 0)
    ELSE IF lst = "none" /\ ~Exists(fsys, link)
    THEN Outcome("", FsPut(fsys, Clean(link), LinkEntry(linkTarget)), 1, 0)
    ELSE Outcome("PathOccupiedByNonLink", fsys, 0, 0)

\* The change the comment in the code considers: a link pointing elsewhere
\* is overwritten.
ReconcileOverwrite(fsys, lst, link, linkTarget) ==
    IF lst = "symlink"
    THEN IF Lstat(fsys, link) = "symlink" /\ fsys[Clean(link)].target = linkTarget
         THEN Outcome("", fsys, 0, 1)
         ELSE Outcome("", FsPut(fsys, Clean(link), LinkEntry(linkTarget)), 1, 0)
    ELSE IF lst = "none" /\ ~Exists(fsys, link)
    THEN Outcome("", FsPut(fsys, Clean(link), LinkEntry(linkTarget)), 1, 0)
    ELSE Outcome("PathOccupiedByNonLink", fsys, 0, 0)

\* A plausible slip: the mode of what Lstat found is not looked at, and
\* whatever is no link is replaced by the link.
ReconcileReplaceNonLink(fsys, lst, link, linkTarget) ==
    IF lst = "symlink" /\ Lstat(fsys, link) = "symlink"
    THEN IF fsys[Clean(link)].target # linkTarget
         THEN Outcome("ConflictingLinkTarget", fsys, 0, 0)
         ELSE Outcome("", fsys, 0, 1)
    ELSE Outcome("", FsPut(fsys, Clean(link), LinkEntry(linkTarget)), 1, 0)

\* A plausible slip: a link found at the path is taken to be right without
\* its target being read, and counted as up to date.
ReconcileTrustLink(fsys, lst, link, linkTarget) ==
    IF lst # "none"
    THEN IF lst # "symlink" THEN Outcome("PathOccupiedByNonLink", fsys, 0, 0)
         ELSE Outcome("", fsys, 0, 1)
    ELSE LET made == Symlink(fsys, linkTarget, link)
         IN  IF made.err # "" THEN Outcome(made.err, fsys, 0, 0)
             ELSE Outcome("", made.fs, 1, 0)

\* What the code does with the link path, lst being what os.Lstat reported
\* (its error is "none") and fsys the file system at the time of the
\* os.Readlink or os.Symlink call that follows.
Reconcile(fsys, lst, link, linkTarget) ==
    IF lst # "none"
    THEN IF lst # "symlink" THEN Outcome("PathOccupiedByNonLink", fsys, 0, 0)
         ELSE IF Lstat(fsys, link) # "symlink"
         THEN Outcome("ReadlinkFailed", fsys, 0, 0)
         ELSE IF fsys[Clean(link)].target # linkTarget
         THEN Outcome("ConflictingLinkTarget", fsys, 0, 0)
         ELSE Outcome("", fsys, 0, 1)
    ELSE LET made == Symlink(fsys, linkTarget, link)
         IN  IF made.err # "" THEN Outcome(made.err, fsys, 0, 0)
             ELSE Outcome("", made.fs, 1, 0)

----------------------------------------------------------------------------
(* main and processWorkspace, one invocation of the program being i        *)

\* A line main prints for a root: the counters, or the failure.
Line(dir, e, c, u) == [dir |-> dir, err |-> e, created |-> c, upToDate |-> u]

Invocation(dirs) ==
    [pc |-> "main", dirs |-> dirs, dirIdx |-> 1,
     protoFiles |-> <<>>, fileIdx |-> 1, buildFiles |-> EmptyMap,
     langRules |-> <<>>, ruleIdx |-> 1,
     link |-> Empty, target |-> Empty, lst |-> "none",
     created |-> 0, upToDate |-> 0, exitCode |-> 0]

Root(i) == inv[i].dirs[inv[i].dirIdx]

ProtoFile(i) == inv[i].protoFiles[inv[i].fileIdx]

\* A plausible slip: main prints the failure and goes on with the next root.
FailNextRoot(i, e) ==
    /\ inv' = [inv EXCEPT ![i].pc = "main", ![i].dirIdx = @ + 1]
    /\ out' = [out EXCEPT ![i] = Append(@, Line(Root(i), e, 0, 0))]

\* A plausible slip: the failure is printed and the loop goes on with the
\* next artifact.
FailNextArtifact(i, e) ==
    /\ inv' = [inv EXCEPT ![i].pc = IF inv[i].pc = "main" THEN "exit" ELSE "file",
                          ![i].exitCode = IF inv[i].pc = "main" THEN 1 ELSE @,
                          ![i].fileIdx = IF inv[i].pc = "main" THEN @ ELSE @ + 1]
    /\ out' = [out EXCEPT ![i] = Append(@, Line(Root(i), e, 0, 0))]

\* processWorkspace returns an error: main prints it and calls os.Exit(1).
Fail(i, e) ==
    /\ inv' = [inv EXCEPT ![i].pc = "exit", ![i].exitCode = 1]
    /\ out' = [out EXCEPT ![i] = Append(@, Line(Root(i), e, 0, 0))]

\* main with an empty --dirs flag.
MainUsage(i) ==
    /\ i \in DOMAIN inv
    /\ inv[i].pc = "main"
    /\ UNCHANGED <<fs0, arg, ret>>
    /\ inv[i].dirs = <<>>
    /\ inv' = [inv EXCEPT ![i].pc = "exit", ![i].exitCode = 1]
    /\ UNCHANGED <<fs, out>>

\* main after the last root.
MainDone(i) ==
    /\ i \in DOMAIN inv
    /\ inv[i].pc = "main"
    /\ UNCHANGED <<fs0, arg, ret>>
    /\ inv[i].dirs # <<>>
    /\ inv[i].dirIdx > Len(inv[i].dirs)
    /\ inv' = [inv EXCEPT ![i].pc = "exit", ![i].exitCode = 0]
    /\ UNCHANGED <<fs, out>>

\* processWorkspace up to its loop: the WORKSPACE check and the walk.
WorkspaceStart(i) ==
    /\ i \in DOMAIN inv
    /\ inv[i].pc = "main"
    /\ UNCHANGED <<fs0, arg, ret>>
    /\ inv[i].dirIdx <= Len(inv[i].dirs)
    /\ IF ~Exists(fs, Join(<<Root(i), <<"WORKSPACE">>>>))
       THEN Fail(i, "NotAWorkspace")
       ELSE /\ inv' = [inv EXCEPT ![i].pc = "file",
                                  ![i].protoFiles = Walk(fs, Root(i)),
                                  ![i].fileIdx = 1,
                                  ![i].buildFiles = EmptyMap,
                                  ![i].created = 0,
                                  ![i].upToDate = 0]
            /\ out' = out
    /\ fs' = fs

\* processWorkspace returns its result: main prints the counters.
WorkspaceDone(i) ==
    /\ i \in DOMAIN inv
    /\ inv[i].pc = "file"
    /\ UNCHANGED <<fs0, arg, ret>>
    /\ inv[i].fileIdx > Len(inv[i].protoFiles)
    /\ out' = [out EXCEPT ![i] =
                 Append(@, Line(Root(i), "", inv[i].created, inv[i].upToDate))]
    /\ inv' = [inv EXCEPT ![i].pc = "main", ![i].dirIdx = @ + 1]
    /\ fs' = fs

\* The head of the loop over protoFiles: the BUILD file of the artifact,
\* parsed once, and the start of processProtoFile.
FileStep(i) ==
    /\ i \in DOMAIN inv
    /\ inv[i].pc = "file"
    /\ UNCHANGED <<fs0, arg, ret>>
    /\ inv[i].fileIdx <= Len(inv[i].protoFiles)
    /\ fs' = fs
    /\ LET buildFilePath == Join(<<Dir(ProtoFile(i)), <<"BUILD">>>>)
           cached == buildFilePath \in DOMAIN inv[i].buildFiles
           buildFile == IF cached THEN inv[i].buildFiles[buildFilePath]
                        ELSE parseBuildFile(fs, buildFilePath)
           found == getLangProtoRulesForProto(buildFile, ProtoFile(i))
       IN  IF ~Exists(fs, buildFilePath)
           THEN /\ inv' = [inv EXCEPT ![i].fileIdx = @ + 1]
                /\ out' = out
           ELSE IF buildFile.err # "" THEN Fail(i, buildFile.err)
           ELSE IF ~found.ok THEN Fail(i, "NoGenerationRuleForArtifact")
           ELSE /\ inv' = [inv EXCEPT
                             ![i].buildFiles = MapPut(@, buildFilePath, buildFile),
                             ![i].langRules = found.rules,
                             ![i].ruleIdx = 1,
                             ![i].pc = "rule"]
                /\ out' = out

\* processProtoFile returns nil: the next artifact.
FileDone(i) ==
    /\ i \in DOMAIN inv
    /\ inv[i].pc = "rule"
    /\ UNCHANGED <<fs0, arg, ret>>
    /\ inv[i].ruleIdx > Len(inv[i].langRules)
    /\ inv' = [inv EXCEPT ![i].pc = "file", ![i].fileIdx = @ + 1]
    /\ UNCHANGED <<fs, out>>

\* The head of the loop over langRules: getLinkAndTarget.
RuleStep(i) ==
    /\ i \in DOMAIN inv
    /\ inv[i].pc = "rule"
    /\ UNCHANGED <<fs0, arg, ret>>
    /\ inv[i].ruleIdx <= Len(inv[i].langRules)
    /\ LET got == getLinkAndTarget(fs, inv[i].langRules[inv[i].ruleIdx],
                                   Root(i), ProtoFile(i))
       IN  IF got.err # "" THEN Fail(i, got.err) /\ fs' = fs
           ELSE /\ inv' = [inv EXCEPT ![i].link = got.link,
                                      ![i].target = got.target,
                                      ![i].pc = "lstat"]
                /\ fs' = got.fs
                /\ out' = out

\* s, err := os.Lstat(link)
LstatStep(i) ==
    /\ i \in DOMAIN inv
    /\ inv[i].pc = "lstat"
    /\ UNCHANGED <<fs0, arg, ret>>
    /\ inv' = [inv EXCEPT ![i].lst = Lstat(fs, inv[i].link),
                          ![i].pc = "reconcile"]
    /\ UNCHANGED <<fs, out>>

\* The branch taken on what Lstat reported, to the end of the loop body.
ReconcileStep(i) ==
    /\ i \in DOMAIN inv
    /\ inv[i].pc = "reconcile"
    /\ UNCHANGED <<fs0, arg, ret>>
    /\ LET got == Reconcile(fs, inv[i].lst, inv[i].link, inv[i].target)
       IN  IF got.err # "" THEN Fail(i, got.err) /\ fs' = fs
           ELSE /\ inv' = [inv EXCEPT ![i].created = @ + got.created,
                                      ![i].upToDate = @ + got.upToDate,
                                      ![i].ruleIdx = @ + 1,
                                      ![i].pc = "rule"]
                /\ fs' = got.fs
                /\ out' = out

Step(i) ==
    \/ MainUsage(i)
    \/ MainDone(i)
    \/ WorkspaceStart(i)
    \/ WorkspaceDone(i)
    \/ FileStep(i)
    \/ FileDone(i)
    \/ RuleStep(i)
    \/ LstatStep(i)
    \/ ReconcileStep(i)

\* The invocations of the program that may run side by side.
Invocations == {1, 2}

Next == \E i \in Invocations : Step(i)

----------------------------------------------------------------------------
(* The workspaces the program is run on                                    *)

\* The longest descriptor, in rules.
MaxRules == 3

\* The longest --dirs list, in roots.
MaxDirs == 2

WS == <<"/", "ws">>

\* A directory without a WORKSPACE file.
W2 == <<"/", "w2">>

Pkg == WS \o <<"/", "pkg">>

MProto == <<"m", ".proto">>

NProto == <<"n", ".proto">>

GoodImport == <<"github", ".", "com", "/", "acme", "/", "proj", "/", "pkg", "/", "m">>

ForeignImport == <<"example", ".", "com", "/", "acme", "/", "proj", "/", "pkg", "/", "m">>

ProtoM == Rule(protoLibrary, <<"m">>, TRUE, <<MProto>>, Empty, Empty)

ProtoMN == Rule(protoLibrary, <<"m">>, TRUE, <<MProto, NProto>>, Empty, Empty)

ProtoB == Rule(protoLibrary, <<"b">>, TRUE, <<MProto>>, Empty, Empty)

GoM == Rule(goProtoLibrary, <<"mgo">>, FALSE, <<>>, <<":", "m">>, GoodImport)

\* A second Go rule for the same import path: the same link path as GoM,
\* another target.
GoM2 == Rule(goProtoLibrary, <<"mgo2">>, FALSE, <<>>, <<":", "m">>, GoodImport)

GoForeign == Rule(goProtoLibrary, <<"mgo3">>, FALSE, <<>>, <<":", "m">>, ForeignImport)

TsM == Rule(tsProtoLibrary, <<"mts">>, FALSE, <<>>, <<":", "m">>, Empty)

RuleUniverse == {ProtoM, ProtoMN, GoM, GoM2, GoForeign, TsM}

\* The sequences over S of length 1..n without a repeated element.
DistinctSeqs(S, n) ==
    {q \in UNION {[1..k -> S] : k \in 1..n} :
       \A a, b \in DOMAIN q : a # b => q[a] # q[b]}

Descriptors == DistinctSeqs(RuleUniverse, MaxRules)

DirLists == UNION {[1..k -> {WS, W2}] : k \in 0..MaxDirs}

\* A workspace /ws with a package pkg (a BUILD file with the given rules,
\* m.proto and n.proto) and a directory lib that is no package, and the
\* directory /w2.
BaseFs(rules) ==
    LET dirsAt == {WS, Pkg, WS \o <<"/", "lib">>, W2}
        filesAt == {WS \o <<"/", "WORKSPACE">>, Pkg \o Slash \o MProto,
                    Pkg \o Slash \o NProto, WS \o <<"/", "lib", "/", "x", ".proto">>}
        build == Pkg \o <<"/", "BUILD">>
    IN  [p \in dirsAt \cup filesAt \cup {build} |->
           IF p = build THEN BuildEntry(rules)
           ELSE IF p \in dirsAt THEN DirEntry ELSE FileEntry]

GoLink == Pkg \o <<"/", "m", "/", "m", ".pb.go">>

GoTarget ==
    WS \o <<"/", "bazel-bin", "/", "pkg", "/", "mgo", "_", "/">> \o GoodImport
       \o <<"/", "m", ".pb.go">>

TsLink == Pkg \o <<"/", "mts", ".d.ts">>

Elsewhere == <<"/", "elsewhere">>

\* What may be at a link path before the program runs.
Occupied ==
    {<<GoLink, e>> : e \in {FileEntry, DirEntry, LinkEntry(GoTarget), LinkEntry(Elsewhere)}}
    \cup {<<TsLink, e>> : e \in {DirEntry, LinkEntry(Elsewhere)}}

WithEntry(fsys, at) == FsPut(MkdirAll(fsys, Dir(at[1])).fs, at[1], at[2])

\* The file systems the program starts on: the workspace, with at most one
\* link path taken.
StartFs ==
    {BaseFs(d) : d \in Descriptors}
    \cup {WithEntry(BaseFs(d), at) : d \in Descriptors, at \in Occupied}

NotRun == [err |-> "not run"]

Init ==
    /\ fs \in StartFs
    /\ fs0 = fs
    /\ \E d \in DirLists : inv = [i \in {1} |-> Invocation(d)]
    /\ out = [i \in {1} |-> <<>>]
    /\ arg = NotRun
    /\ ret = NotRun

Spec == Init /\ [][Next]_vars

----------------------------------------------------------------------------
(* Two invocations on the same workspace at the same time                  *)

RaceDescriptors == {<<ProtoMN, GoM>>, <<ProtoMN, TsM>>, <<ProtoMN, GoM, TsM>>}

InitRace ==
    /\ fs \in {BaseFs(d) : d \in RaceDescriptors}
            \cup {WithEntry(BaseFs(d), <<GoLink, LinkEntry(GoTarget)>>) :
                    d \in RaceDescriptors}
    /\ fs0 = fs
    /\ inv \in [Invocations -> {Invocation(d) : d \in {<<>>, <<WS>>}}]
    /\ out = [i \in Invocations |-> <<>>]
    /\ arg = NotRun
    /\ ret = NotRun

SpecRace == InitRace /\ [][Next]_vars

----------------------------------------------------------------------------
(* parseBuildFile on its own                                               *)

ProtoAnon == Rule(protoLibrary, Empty, TRUE, <<MProto>>, Empty, Empty)

ProtoSub == Rule(protoLibrary, <<"c">>, TRUE, <<<<"sub", "/", "m", ".proto">>>>, Empty, Empty)

ProtoNoSrcs == Rule(protoLibrary, <<"c">>, FALSE, <<>>, Empty, Empty)

GoNoProto == Rule(goProtoLibrary, <<"mgo">>, FALSE, <<>>, Empty, GoodImport)

GoNonLocal ==
    Rule(goProtoLibrary, <<"mgo">>, FALSE, <<>>, <<"/", "/", "pkg", ":", "m">>, GoodImport)

GoNoImport == Rule(goProtoLibrary, <<"mgo">>, FALSE, <<>>, <<":", "m">>, Empty)

GoLibrary == Rule("go_library", <<"lib">>, TRUE, <<<<"m", ".pb.go">>>>, Empty, Empty)

ParseUniverse ==
    RuleUniverse \cup {ProtoB, ProtoAnon, ProtoSub, ProtoNoSrcs, GoNoProto, GoNonLocal,
                       GoNoImport, GoLibrary}

BuildPath == Pkg \o <<"/", "BUILD">>

InitParse ==
    /\ fs \in {BaseFs(d) : d \in DistinctSeqs(ParseUniverse, MaxRules) \cup {<<>>}}
            \cup {FsPut(BaseFs(<<>>), BuildPath, e) : e \in {FileEntry, DirEntry}}
    /\ fs0 = fs
    /\ inv = <<>>
    /\ out = <<>>
    /\ arg = BuildPath
    /\ ret = NotRun

ParseStep ==
    /\ ret = NotRun
    /\ ret' = parseBuildFile(fs, arg)
    /\ UNCHANGED <<fs, fs0, inv, out, arg>>

SpecParse == InitParse /\ [][ParseStep]_vars

----------------------------------------------------------------------------
(* getLinkAndTarget on its own                                             *)

\* The longest import path, in segments.
MaxImportSegs == 4

ImportSegs == {<<"github", ".", "com">>, <<"github", "x", "com">>, <<"acme">>, <<"pkg">>}

ImportPaths ==
    LET plain == {JoinSegs(q) : q \in UNION {[1..k -> ImportSegs] : k \in 1..MaxImportSegs}}
    IN  plain \cup {p \o Slash : p \in plain}

ResolveRules ==
    {languageProtoRule(goProtoLibrary, <<"mgo">>, <<"m">>, ip) : ip \in ImportPaths}
    \cup {languageProtoRule(k, <<"mts">>, <<"m">>, Empty) :
            k \in {tsProtoLibrary, "go_library"}}

ResolveArtifacts ==
    {Pkg \o Slash \o MProto, WS \o Slash \o MProto,
     WS \o <<"/", "lib", "/", "x", ".proto">>}

InitResolve ==
    /\ fs = BaseFs(<<>>)
    /\ fs0 = fs
    /\ inv = <<>>
    /\ out = <<>>
    /\ arg \in [rule : ResolveRules, workspaceRoot : {WS, WS \o Slash},
                protoFile : ResolveArtifacts]
    /\ ret = NotRun

ResolveStep ==
    /\ ret = NotRun
    /\ LET got == getLinkAndTarget(fs, arg.rule, arg.workspaceRoot, arg.protoFile)
       IN  /\ ret' = [err |-> got.err, link |-> got.link, target |-> got.target]
           /\ fs' = got.fs
    /\ UNCHANGED <<fs0, inv, out, arg>>

SpecResolve == InitResolve /\ [][ResolveStep]_vars

----------------------------------------------------------------------------
(* What the claims speak of                                                *)

Last(q) == q[Len(q)]

\* The invocation has reported a failed root.
Failed(i) == out[i] # <<>> /\ Last(out[i]).err # ""

BuildFileOf(protoFile) == Join(<<Dir(protoFile), <<"BUILD">>>>)

\* The generation rules the program looks up for an artifact, none where
\* the artifact has no readable descriptor or no rule.
RulesOf(fsys, protoFile) ==
    IF ~Exists(fsys, BuildFileOf(protoFile)) THEN <<>>
    ELSE getLangProtoRulesForProto(parseBuildFile(fsys, BuildFileOf(protoFile)),
                                   protoFile).rules

LinkSpecOf(fsys, root, f, k, protoFile) ==
    LET got == getLinkAndTarget(fsys, RulesOf(fsys, protoFile)[k], root, protoFile)
    IN  [file |-> f, rule |-> k, link |-> got.link, target |-> got.target]

\* The (link, target) pairs of a root, one for each artifact and generation
\* rule consuming it.
LinkSpecs(fsys, root) ==
    LET files == Walk(fsys, root)
    IN  UNION {{LinkSpecOf(fsys, root, f, k, files[f]) :
                  k \in DOMAIN RulesOf(fsys, files[f])} : f \in DOMAIN files}

\* The invocation is given the same root twice.
TwiceSame(i) == Len(inv[i].dirs) = 2 /\ inv[i].dirs[1] = inv[i].dirs[2]

\* No computed link path of the root is taken when the program starts.
Fresh(root) == \A x \in LinkSpecs(fs0, root) : ~Exists(fs0, x.link)

FirstRunOk(i) == Len(out[i]) >= 1 /\ out[i][1].err = ""

\* C1 as the spec states it: run twice on the same root, starting without
\* any of the links, the first run reports created = N and upToDate = 0 and
\* the second created = 0 and upToDate = N, N being the number of (artifact,
\* generation rule) pairs.
C1Original ==
    \A i \in DOMAIN inv :
       (TwiceSame(i) /\ Fresh(inv[i].dirs[1]) /\ FirstRunOk(i)) =>
          LET root == inv[i].dirs[1]
              n == Cardinality(LinkSpecs(fs0, root))
          IN  /\ out[i][1] = Line(root, "", n, 0)
              /\ Len(out[i]) >= 2 => out[i][2] = Line(root, "", 0, n)

C1Counts ==
    \A i \in DOMAIN inv :
       (TwiceSame(i) /\ Fresh(inv[i].dirs[1]) /\ FirstRunOk(i)) =>
          LET root == inv[i].dirs[1]
              n == Cardinality(LinkSpecs(fs0, root))
              c == Cardinality({x.link : x \in LinkSpecs(fs0, root)})
          IN  /\ out[i][1] = Line(root, "", c, n - c)
              /\ Len(out[i]) >= 2 => out[i][2] = Line(root, "", 0, n)
              /\ inv[i].pc = "exit" => Len(out[i]) = 2 /\ inv[i].exitCode = 0

C1SecondRunIdle ==
    \A i \in DOMAIN inv :
       (TwiceSame(i) /\ Fresh(inv[i].dirs[1]) /\ inv[i].dirIdx = 2) => fs' = fs

\* C1, amended: run twice on the same root, starting without any of the
\* links and the first run succeeding, the first run reports created = C and
\* upToDate = N - C, C being the number of distinct link paths among the N
\* pairs, the second run reports created = 0 and upToDate = N, and the
\* second run changes nothing in the file system.
C1Theorem == []C1Counts /\ [][C1SecondRunIdle]_vars

\* Both runs are done and two pairs of the root shared one link path.
C1Witness ==
    /\ TwiceSame(1) /\ Fresh(WS) /\ Len(out[1]) = 2
    /\ out[1][1].err = "" /\ out[1][1].upToDate > 0 /\ out[1][1].created > 0
    /\ out[1][2].upToDate = out[1][1].created + out[1][1].upToDate

\* The invocation stands before a link path that holds an entry of one of
\* the given types, lstat saying whether it still has to inspect the path.
Reaches(i, pc, types) ==
    /\ inv[i].pc = pc
    /\ Lstat(fs, inv[i].link) \in types

\* The step reports the failure e for the root and ends the invocation,
\* the file system and the counters left as they were.
FailsWith(i, e) ==
    /\ fs' = fs
    /\ out'[i] = Append(out[i], Line(Root(i), e, 0, 0))
    /\ inv'[i] = [inv[i] EXCEPT !.pc = "exit", !.exitCode = 1]

InspectsOnly(i) ==
    /\ fs' = fs
    /\ out' = out
    /\ inv'[i] = [inv[i] EXCEPT !.pc = "reconcile", !.lst = Lstat(fs, inv[i].link)]

\* C2: when reconciliation reaches a link path holding a symbolic link
\* whose recorded target differs from the computed target, the root fails
\* with the conflicting-link-target error, the link stays as it is, and
\* nothing is counted as created or up to date.
C2Theorem ==
    [][\A i \in DOMAIN inv :
         LET differs == fs[inv[i].link].target # inv[i].target
         IN  /\ (Reaches(i, "lstat", {"symlink"}) /\ differs /\ inv'[i] # inv[i])
                    => InspectsOnly(i)
             /\ (Reaches(i, "reconcile", {"symlink"}) /\ differs /\ inv'[i] # inv[i])
                    => FailsWith(i, "ConflictingLinkTarget")]_vars

\* A root has failed on a link that points elsewhere, and the link is there.
C2Witness ==
    /\ inv[1].pc = "exit"
    /\ Failed(1) /\ Last(out[1]).err = "ConflictingLinkTarget"
    /\ Lstat(fs, inv[1].link) = "symlink"
    /\ fs[inv[1].link].target = Elsewhere
    /\ inv[1].target # Elsewhere

\* C3: when reconciliation reaches a link path holding a regular file or a
\* directory, the root fails with the path-occupied-by-non-link error and
\* the entry stays exactly as it was.
C3Theorem ==
    [][\A i \in DOMAIN inv :
         /\ (Reaches(i, "lstat", {"file", "dir"}) /\ inv'[i] # inv[i])
                => InspectsOnly(i)
         /\ (Reaches(i, "reconcile", {"file", "dir"}) /\ inv'[i] # inv[i])
                => FailsWith(i, "PathOccupiedByNonLink")]_vars

\* A root has failed on a link path that holds a directory, still there.
C3Witness ==
    /\ inv[1].pc = "exit"
    /\ Failed(1) /\ Last(out[1]).err = "PathOccupiedByNonLink"
    /\ fs[inv[1].link] = DirEntry
    /\ fs0[inv[1].link] = DirEntry

\* C5 as the spec states it: every root of the list gets its result, a
\* failure of another root notwithstanding.
C5Original ==
    \A i \in DOMAIN inv :
       (inv[i].pc = "exit" /\ inv[i].dirs # <<>>) => Len(out[i]) = Len(inv[i].dirs)

\* C5, amended: the roots are processed in the order given and a failure in
\* one root ends the whole invocation with exit status 1; the roots after it
\* are not processed and get no result, the roots before it keep the
\* results printed for them, and only a run without a failure reports on
\* every root.
C5Theorem ==
    \A i \in DOMAIN inv :
       /\ Len(out[i]) <= Len(inv[i].dirs)
       /\ \A k \in DOMAIN out[i] :
             /\ out[i][k].dir = inv[i].dirs[k]
             /\ out[i][k].err # "" =>
                   /\ k = Len(out[i])
                   /\ inv[i].pc = "exit" /\ inv[i].exitCode = 1
                   /\ inv[i].dirIdx = k
       /\ (inv[i].pc = "exit" /\ ~Failed(i) /\ inv[i].dirs # <<>>) =>
             /\ inv[i].exitCode = 0
             /\ Len(out[i]) = Len(inv[i].dirs)

\* The first of two roots has failed and the invocation is over.
C5Witness ==
    /\ inv[1].pc = "exit" /\ inv[1].exitCode = 1
    /\ Len(inv[1].dirs) = 2
    /\ Len(out[1]) = 1 /\ out[1][1].err # ""

\* The symbolic links that were not there when the program started.
NewLinks == {p \in DOMAIN fs : fs[p].type = "symlink" /\ p \notin DOMAIN fs0}

C6FailFast ==
    \A i \in DOMAIN inv :
       Failed(i) => inv[i].pc = "exit" /\ inv[i].exitCode = 1

C6NoRollback ==
    /\ \A p \in DOMAIN fs : fs[p].type = "symlink" => p \in DOMAIN fs' /\ fs'[p] = fs[p]
    /\ \A i \in DOMAIN inv :
          /\ (Failed(i)' /\ ~Failed(i)) =>
                /\ fs' = fs
                /\ inv'[i] = [inv[i] EXCEPT !.pc = "exit", !.exitCode = 1]
          /\ Failed(i) => inv'[i] = inv[i]

\* C6: the first failure in a root ends processWorkspace at once, no later
\* artifact or generation rule of the root is processed, and every link
\* created before the failure is still there with its target.
C6Theorem == []C6FailFast /\ [][C6NoRollback]_vars

\* A root has failed after the same run created a link, which is there.
C6Witness ==
    /\ Failed(1) /\ inv[1].pc = "exit"
    /\ inv[1].created > 0
    /\ NewLinks # {}
    /\ inv[1].fileIdx < Len(inv[1].protoFiles)

\* The rules of the descriptor of an artifact, as the file lists them.
DescriptorOf(protoFile) == fs[BuildFileOf(protoFile)].rules

\* The positions of the proto_library rules that list the basename of the
\* artifact among their sources.
Declaring(protoFile) ==
    {k \in DOMAIN DescriptorOf(protoFile) :
       LET r == DescriptorOf(protoFile)[k]
       IN  /\ r.kind = protoLibrary
           /\ \E s \in DOMAIN r.srcs : r.srcs[s] = Base(protoFile)}

IsGeneration(r) == r.kind \in {goProtoLibrary, tsProtoLibrary}

\* The generation rules of the descriptor that refer to the rule named
\* owner, in the order of the file.
Consumers(protoFile, owner) ==
    LET picked == SelectSeq(DescriptorOf(protoFile),
                            LAMBDA r : IsGeneration(r) /\ r.proto = <<":">> \o owner)
    IN  [k \in DOMAIN picked |->
           languageProtoRule(picked[k].kind, picked[k].name, owner,
               IF picked[k].kind = goProtoLibrary THEN picked[k].importpath
               ELSE Empty)]

\* The invocation is about to look up an artifact whose descriptor is there
\* and parses.
AtLookup(i) ==
    /\ inv[i].pc = "file"
    /\ inv[i].fileIdx <= Len(inv[i].protoFiles)
    /\ Exists(fs, BuildFileOf(ProtoFile(i)))
    /\ parseBuildFile(fs, BuildFileOf(ProtoFile(i))).err = ""

Undeclared(protoFile) == Declaring(protoFile) = {}

Unconsumed(protoFile) ==
    /\ Declaring(protoFile) # {}
    /\ \A k \in Declaring(protoFile) :
          Consumers(protoFile, DescriptorOf(protoFile)[k].name) = <<>>

\* C7: an artifact that has a descriptor, and whose basename no
\* proto_library rule declares or only a rule without a generation rule
\* declares, fails the root with one and the same no-generation-rule
\* error; it is not skipped and gets no link.
C7Theorem ==
    [][\A i \in DOMAIN inv :
         (/\ AtLookup(i)
          /\ Undeclared(ProtoFile(i)) \/ Unconsumed(ProtoFile(i))
          /\ inv'[i] # inv[i])
            => FailsWith(i, "NoGenerationRuleForArtifact")]_vars

\* A root has failed on an artifact that a rule declares and no generation
\* rule consumes.
C7Witness ==
    /\ inv[1].pc = "exit" /\ Failed(1)
    /\ Last(out[1]).err = "NoGenerationRuleForArtifact"
    /\ Unconsumed(ProtoFile(1))

\* The link and target the code computes for the k-th consumer, in file
\* order, of the rule that declares the artifact of the invocation.
ConsumerSpec(i, k) ==
    LET owner == DescriptorOf(ProtoFile(i))[CHOOSE d \in Declaring(ProtoFile(i)) : TRUE].name
    IN  getLinkAndTarget(fs, Consumers(ProtoFile(i), owner)[k], Root(i), ProtoFile(i))

\* C9: the index keeps every generation rule that refers to a proto_library
\* rule, in the order of the descriptor, and for an artifact of that rule
\* the links are reconciled one per generation rule in that order, none
\* dropped or replaced.
C9Theorem ==
    \A i \in DOMAIN inv :
       inv[i].pc \in {"rule", "lstat", "reconcile"} =>
          LET owner == DescriptorOf(ProtoFile(i))[CHOOSE d \in Declaring(ProtoFile(i)) : TRUE].name
              expected == Consumers(ProtoFile(i), owner)
          IN  /\ Declaring(ProtoFile(i)) # {}
              /\ inv[i].langRules = expected
              /\ inv[i].pc # "rule" =>
                    /\ inv[i].link = ConsumerSpec(i, inv[i].ruleIdx).link
                    /\ inv[i].target = ConsumerSpec(i, inv[i].ruleIdx).target
              /\ \A k \in 1..(inv[i].ruleIdx - 1) :
                    /\ Lstat(fs, ConsumerSpec(i, k).link) = "symlink"
                    /\ fs[ConsumerSpec(i, k).link].target = ConsumerSpec(i, k).target

\* The links of two generation rules of different kinds that consume one
\* proto_library rule have been reconciled for an artifact.
C9Witness ==
    /\ inv[1].pc = "rule"
    /\ Len(inv[1].langRules) = 2
    /\ inv[1].ruleIdx = 3
    /\ inv[1].langRules[1].kind # inv[1].langRules[2].kind
    /\ inv[1].created = 2

\* The descriptor handed to parseBuildFile was read and parsed, and each of
\* its proto_library rules has a srcs list.
ParsedWithSources ==
    /\ ret # NotRun
    /\ fs[arg].type = "file" /\ fs[arg].parses
    /\ \A k \in DOMAIN fs[arg].rules :
          fs[arg].rules[k].kind = protoLibrary => fs[arg].rules[k].hasSrcs

\* Two proto_library rules at different places of the descriptor list
\* sources of the same basename.
SharedBasename(rules) ==
    \E a, b \in DOMAIN rules :
       /\ a # b
       /\ rules[a].kind = protoLibrary /\ rules[b].kind = protoLibrary
       /\ \E s \in DOMAIN rules[a].srcs, t \in DOMAIN rules[b].srcs :
             Base(rules[a].srcs[s]) = Base(rules[b].srcs[t])

\* C4: a descriptor in which two distinct proto_library rules list sources
\* of the same basename makes parseBuildFile fail with the duplicate-source-
\* ownership error, whichever of the two comes first, and no index is
\* returned.
C4Claim ==
    (ParsedWithSources /\ SharedBasename(fs[arg].rules)) =>
        /\ ret.err = "DuplicateSourceOwnership"
        /\ ret.protoFileToRule = EmptyMap
        /\ ret.protoRuleToLangProtoRules = EmptyMap

\* The import path begins with github.com/<owner>/<project>/.
HasGithubRepoPrefix(importPath) ==
    LET segs == SplitSegs(importPath, Empty)
    IN  /\ Len(segs) >= 4
        /\ segs[1] = <<"github", ".", "com">>
        /\ segs[2] # Empty
        /\ segs[3] # Empty

\* The import path with its github.com/<owner>/<project>/ prefix taken off.
AfterGithubRepo(importPath) ==
    LET segs == SplitSegs(importPath, Empty)
    IN  JoinSegs(SubSeq(segs, 4, Len(segs)))

\* The directory of the artifact, relative to the root.
RelativeDir(workspaceRoot, protoFile) ==
    LET rootSegs == SelectSeq(SplitSegs(workspaceRoot, Empty), RealSeg)
        fileSegs == SelectSeq(SplitSegs(protoFile, Empty), RealSeg)
    IN  JoinSegs(SubSeq(fileSegs, Len(rootSegs) + 1, Len(fileSegs) - 1))

PbGo(protoFile) ==
    LET name == Last(SplitSegs(protoFile, Empty))
    IN  SubSeq(name, 1, Len(name) - 1) \o <<".pb.go">>

\* C8: for a go_proto_library rule whose import path begins with
\* github.com/<owner>/<project>/, the link is root / (import path without
\* that prefix) / (basename with .pb.go for .proto) and the target is root /
\* bazel-bin / (directory of the artifact under the root) / (rule name, "_")
\* / (import path) / (the same basename); for any other import path the
\* resolution fails with the unresolvable-import-path error and gives no
\* paths.
C8Claim ==
    (ret # NotRun /\ arg.rule.kind = goProtoLibrary) =>
        LET ip == arg.rule.importPath
            root == arg.workspaceRoot
        IN  IF HasGithubRepoPrefix(ip)
            THEN /\ ret.err = ""
                 /\ ret.link = Clean(root \o Slash \o AfterGithubRepo(ip) \o Slash
                                     \o PbGo(arg.protoFile))
                 /\ ret.target = Clean(root \o <<"/", "bazel-bin", "/">>
                                     \o RelativeDir(root, arg.protoFile) \o Slash
                                     \o arg.rule.name \o <<"_", "/">> \o ip \o Slash
                                     \o PbGo(arg.protoFile))
            ELSE ret = [err |-> "UnresolvableImportPath", link |-> Empty,
                        target |-> Empty]

\* C10: of two invocations on one root that both saw nothing at a link
\* path, the one whose symlink call fails because the other made the link
\* first does not fail the root: it looks at the path again and ends up to
\* date or with a conflict.
C10Claim ==
    \A i \in DOMAIN inv :
       ~(/\ inv[i].pc = "exit"
         /\ Failed(i)
         /\ Last(out[i]).err = "SymlinkFailed"
         /\ inv[i].lst = "none"
         /\ Lstat(fs, inv[i].link) = "symlink")

\* The artifact lies in a directory with a BUILD file.
HasDescriptor(protoFile) == Exists(fs0, BuildFileOf(protoFile))

\* The (artifact, generation rule) pairs of a root with the link and target
\* computed for each: f the position of the artifact in the walk, d the
\* position of the proto_library rule declaring it and k the position of
\* the generation rule among the consumers of that rule.
PairsOf(root) ==
    LET files == Walk(fs0, root)
        owner(f, d) == DescriptorOf(files[f])[d].name
    IN  UNION {UNION {{[file |-> f, decl |-> d, rule |-> k,
                        link |-> getLinkAndTarget(fs0,
                                    Consumers(files[f], owner(f, d))[k],
                                    root, files[f]).link,
                        target |-> getLinkAndTarget(fs0,
                                    Consumers(files[f], owner(f, d))[k],
                                    root, files[f]).target] :
                         k \in DOMAIN Consumers(files[f], owner(f, d))} :
                      d \in Declaring(files[f])} :
                 f \in {g \in DOMAIN files : HasDescriptor(files[g])}}

C11Post ==
    \A i \in DOMAIN inv :
       \A n \in DOMAIN out[i] :
          out[i][n].err = "" =>
             LET pairs == PairsOf(out[i][n].dir)
             IN  /\ \A x \in pairs :
                       /\ Lstat(fs, x.link) = "symlink"
                       /\ fs[x.link].target = x.target
                 /\ out[i][n].created + out[i][n].upToDate = Cardinality(pairs)
                 /\ \A p \in NewLinks : \E x \in pairs : x.link = p

C11Skip ==
    \A i \in DOMAIN inv :
       (/\ inv[i].pc = "file"
        /\ inv[i].fileIdx <= Len(inv[i].protoFiles)
        /\ ~HasDescriptor(ProtoFile(i))
        /\ inv'[i] # inv[i])
          => /\ fs' = fs
             /\ out' = out
             /\ inv'[i] = [inv[i] EXCEPT !.fileIdx = @ + 1]

\* C11: when processWorkspace returns a result without error, every
\* (artifact, generation rule) pair of the root, the artifact having a
\* descriptor, has at its computed link path a symbolic link whose target is
\* exactly the computed target, created + upToDate is the number of those
\* pairs, and an artifact in a directory without a BUILD file is passed
\* over: no counter moves, nothing is written, and no link exists that is
\* not the link of a pair.
C11Theorem == []C11Post /\ [][C11Skip]_vars

\* A root has returned its result after one link was found right and
\* another was made, the walk having met an artifact without a descriptor.
C11Witness ==
    /\ Len(out[1]) >= 1
    /\ out[1][1] = Line(WS, "", 1, 1)
    /\ GoLink \in DOMAIN fs0
    /\ NewLinks = {TsLink}
    /\ \E f \in DOMAIN Walk(fs0, WS) : ~HasDescriptor(Walk(fs0, WS)[f])

====
